---- MODULE Spec2Model ----
(***************************************************************************)
(* Request handling of the SAP plant-address chatbot backend:              *)
(*   - POST /process-user-query/  (main.py, process_user_query)            *)
(*   - POST /v3/route             (dynamic_router.py, route_dynamic)       *)
(* with the two entity extractors (services/nlp_*.py), the intent registry *)
(* and its handlers (core/), and the two remote-service clients            *)
(* (services/sap_service.py, services/sap_postal_service.py).              *)
(* One request is handled at a time; every outbound call (language model,  *)
(* remote SAP service) is one step whose answer is chosen by the remote.   *)
(***************************************************************************)
EXTENDS Integers, Sequences, FiniteSets, TLC

(* ------------------------------ bounds --------------------------------- *)
\* number of distinct PLANT keys
NumPlants == 2
\* number of CSRF tokens the remote service issues before the model stops
\* accepting new requests
MaxTokens == 3

Plants == 1..NumPlants

(* ------------------------------ state ---------------------------------- *)
VARIABLES
    pc,         \* position of the request being handled
    route,      \* "v1" (process_user_query) or "v3" (route_dynamic)
    payload,    \* the request body
    telData,    \* result of extract_telephone_details
    postData,   \* result of extract_postal_details
    chosen,     \* intent and entities after reconciliation / payload defaults
    intent,     \* the intent that is dispatched
    entities,   \* the entity map handed to the handler
    handler,    \* handler (module) that was invoked, "" for none
    clean,      \* clean_entities of the running upsert
    plant,      \* PLANT of the running upsert
    exists,     \* result of the existence check of the telephone upsert
    token,      \* CSRF token held by the running upsert
    postStatus, \* status of the create request of the postal upsert
    calls,      \* outbound calls of this request, in order
    response,   \* the HTTP response of this request
    store,      \* remote service: keys of the records of each entity set
    issued,     \* remote service: number of CSRF tokens issued so far
    raised,     \* the exception that ended this request, NoExc for none
    jar,        \* per service module: its requests.Session holds remote cookies
    llmText,    \* extractor under test: the text the language model returned
    extractor,  \* extractor under test: "tel" or "post", "" for none
    parsed,     \* extractor under test: outcome of json.loads
    extracted,  \* extractor under test: the returned value or the exception
    upserts     \* direct calls of the upsert functions: the locals of each caller

vars == <<pc, route, payload, telData, postData, chosen, intent, entities, handler,
          clean, plant, exists, token, postStatus, calls, response, store, issued,
          raised, jar, llmText, extractor, parsed, extracted, upserts>>
requestVars == <<pc, route, payload, telData, postData, chosen, intent, entities, handler,
                 clean, plant, exists, token, postStatus, calls, response, store, issued,
                 raised, jar>>
pureVars == <<llmText, extractor, parsed, extracted>>
reqLocals == <<telData, postData, chosen, intent, entities, handler,
               clean, plant, exists, token, postStatus>>

(* ------------------------------ data model ----------------------------- *)
TelephoneIntents == {"GetTelephoneAddress", "CreateTelephoneAddress", "UpdateTelephoneAddress"}
PostalIntents == {"GetPostalAddress", "CreatePostalAddress", "UpdatePostalAddress"}
WriteIntents == {"CreateTelephoneAddress", "UpdateTelephoneAddress",
                 "CreatePostalAddress", "UpdatePostalAddress"}
Intents == TelephoneIntents \cup PostalIntents \cup {"GeneralChat"}

\* An entity map is a mapping from some of the field names to values.
\* PLANT: 0 is the empty string, 1..NumPlants a plant key.
\* OTHER (any other field of the domain): 0 is the empty string, 1 a value.
Fields == {"PLANT", "OTHER"}
EmptyMap == [f \in {} |-> 0]
EntityMaps ==
    { e \in UNION { [D -> 0..NumPlants] : D \in SUBSET Fields } :
        "OTHER" \in DOMAIN e => e["OTHER"] <= 1 }

\* dict.get(f): None (here 0, which is falsy like "") when the key is absent
Get(e, f) == IF f \in DOMAIN e THEN e[f] ELSE 0

NoData == [intent |-> "", entities |-> EmptyMap]

(* ------------------------------ extractors ----------------------------- *)
\* What the language model may answer to an extraction prompt:
\*   badjson   - text that json.loads rejects
\*   nonobject - valid JSON that is not an object (parsed.get does not exist)
\*   object    - a JSON object with an intent and an entities map
KnownIntents(domain) ==
    (IF domain = "tel" THEN TelephoneIntents ELSE PostalIntents) \cup {"GeneralChat"}

LLMOutputs ==
    { [kind |-> "badjson", intent |-> "", entities |-> EmptyMap],
      [kind |-> "nonobject", intent |-> "", entities |-> EmptyMap] }
    \cup [kind : {"object"}, intent : Intents \cup {"Bogus"}, entities : EntityMaps]

\* json.loads has not run / the extractor has not returned
NoParsed == [kind |-> "", intent |-> "", entities |-> EmptyMap]
NoExtracted == [exc |-> [cls |-> "", msg |-> "", code |-> 0, carries |-> {}],
                value |-> NoData]

\* the exception (or none) an extractor ends with
NoExc == [cls |-> "", msg |-> "", code |-> 0, carries |-> {}]

extract_error_Swallowed(out) ==
    IF out.kind = "nonobject"
    THEN [cls |-> "AttributeError", msg |-> "object has no attribute 'get'", code |-> 0, carries |-> {}]
    ELSE NoExc

extract_error(out) ==
    IF out.kind = "badjson"
    THEN [cls |-> "ValueError", msg |-> "Invalid JSON from LLM: <raw model output>", code |-> 0, carries |-> {}]
    ELSE IF out.kind = "nonobject"
    THEN [cls |-> "AttributeError", msg |-> "object has no attribute 'get'", code |-> 0, carries |-> {}]
    ELSE NoExc

extract_details_Passthrough(domain, out) ==
    [intent |-> out.intent, entities |-> out.entities]

\* the value an extractor returns for a parsed object
extract_details(domain, out) ==
    [intent |-> IF out.intent \in KnownIntents(domain) THEN out.intent ELSE "GeneralChat",
     entities |-> out.entities]

(* ------------------------------ reconciliation ------------------------- *)
Reconcile_PostalFirst(tel, post) ==
    IF post.intent # "GeneralChat" THEN post
    ELSE IF tel.intent # "GeneralChat" THEN tel
    ELSE [intent |-> "GeneralChat", entities |-> EmptyMap]

Reconcile(tel, post) ==
    IF tel.intent # "GeneralChat" THEN tel
    ELSE IF post.intent # "GeneralChat" THEN post
    ELSE [intent |-> "GeneralChat", entities |-> EmptyMap]

(* ------------------------------ HTTP boundary -------------------------- *)
NoResponse == [code |-> 0, status |-> "", type |-> "", detail |-> "", keys |-> {}, data |-> {}]
\* the dict a branch or handler returns: {"status": "success", "type": "sap",
\* "data": ...} or {"status": "success", "type": "general", "reply": ...}
Success(type) ==
    [code |-> 200, status |-> "success", type |-> type, detail |-> "",
     keys |-> {"status", "type", IF type = "sap" THEN "data" ELSE "reply"}, data |-> {}]

\* FastAPI's answer to a raised HTTPException(status_code, detail): the body
\* is {"detail": detail}
HTTPError(code, detail) ==
    [code |-> code, status |-> "error", type |-> "", detail |-> detail,
     keys |-> {"detail"}, data |-> {}]

HttpBoundary_ValueErrorLast(exc) ==
    IF exc.cls = "HTTPException"
    THEN HTTPError(exc.code, exc.msg)
    ELSE HTTPError(400, exc.msg)

\* the except clauses of the two endpoints
HttpBoundary(exc) ==
    IF exc.cls = "HTTPException"
    THEN HTTPError(exc.code, exc.msg)
    ELSE IF exc.cls = "ValueError"
    THEN HTTPError(400, exc.msg)
    ELSE HTTPError(500, "Internal Server Error")

MissingMsg == "Missing required field(s): PLANT"

(* ------------------------------ intent configuration ------------------- *)
\* config/intents.json: every intent names the handler module of its domain;
\* the write intents require PLANT.
ConfiguredIntents == Intents
HandlerModule(i) ==
    IF i \in TelephoneIntents THEN "sap_telephone"
    ELSE IF i \in PostalIntents THEN "sap_postal"
    ELSE "general_chat"
Required(i) == IF i \in WriteIntents THEN {"PLANT"} ELSE {}

\* importlib.import_module("core.handlers.<mod>"): core/handlers/sap_postal.py
\* imports get_telephone_address and create_update_telephone_address from
\* services.sap_postal_service, which defines neither, so the import raises
\* ImportError and the registration loop skips every intent of that module.
ImportOK(mod) == mod # "sap_postal"
Registered == { i \in ConfiguredIntents : ImportOK(HandlerModule(i)) }

FallbackIntent_None(i) == i

\* route_dynamic, "Validate against config": the intent that is dispatched
FallbackIntent(i) ==
    IF i \notin ConfiguredIntents \/ i \notin Registered THEN "GeneralChat" ELSE i

(* ------------------------------ upsert helpers ------------------------- *)
clean_entities_Identity(e) == e

\* {k: v for k, v in entities.items() if v not in (None, "", [])}
clean_entities(e) == [k \in { f \in DOMAIN e : e[f] # 0 } |-> e[k]]

FallbackStatuses_Without409 == {400, 403}

\* statuses of a failed create after which the postal upsert tries an update
FallbackStatuses == {400, 403, 409}
CreateOk == {200, 201}
UpdateOk == {200, 204}

write_headers_NoToken(tok) == [csrf |-> 0]

write_headers_Cached(tok) == [csrf |-> IF issued > 1 THEN 1 ELSE tok]

\* headers of a write request: the token fetched in this call
write_headers(tok) == [csrf |-> tok]

(* ------------------------------ remote service ------------------------- *)
\* One outbound call as the remote side sees it.  status 0: no answer within
\* the timeout.  csrf: the token the call carries (writes) or returns
\* (token fetch), 0 for none.  cookie: the request carries cookies of the
\* remote, those the module's session holds when the call is made.
Call(svc, op, p, status, csrf, body) ==
    [svc |-> svc, op |-> op, plant |-> p, status |-> status, csrf |-> csrf, body |-> body,
     cookie |-> IF svc = "llm" THEN FALSE ELSE jar[svc]]
Writes == {"POST", "PUT", "PATCH"}

(* ------------------------------ requests ------------------------------- *)
\* schemas.py DynamicRequest._check_one_of: the validator of the request model
\* that refuses a body with neither member.  route_dynamic declares its body
\* as DynamicPayload, which has no validator, so StartRequest does not apply it.
check_one_of(b) ==
    IF b.user_query = "" /\ b.intent = ""
    THEN [cls |-> "ValueError", msg |-> "Provide either 'user_query' or ('intent' + 'entities')",
          code |-> 0, carries |-> {}]
    ELSE NoExc

\* bodies accepted by the two endpoints
Payloads(r) ==
    IF r = "v1"
    THEN { [user_query |-> "q", intent |-> "", entities |-> EmptyMap] }
    ELSE { [user_query |-> "q", intent |-> "", entities |-> EmptyMap],
           [user_query |-> "q", intent |-> "CreateTelephoneAddress",
            entities |-> [f \in {"PLANT"} |-> 1]] }
         \cup [user_query : {""}, intent : Intents \cup {"Bogus", ""}, entities : EntityMaps]

InitRequest ==
    /\ pc = "idle"
    /\ route = "v1"
    /\ payload = [user_query |-> "", intent |-> "", entities |-> EmptyMap]
    /\ telData = NoData
    /\ postData = NoData
    /\ chosen = NoData
    /\ intent = ""
    /\ entities = EmptyMap
    /\ handler = ""
    /\ clean = EmptyMap
    /\ plant = 0
    /\ exists = FALSE
    /\ token = 0
    /\ postStatus = 0
    /\ calls = << >>
    /\ response = NoResponse
    /\ store = [d \in {"tel", "post"} |-> {}]
    /\ issued = 0
    /\ raised = NoExc
    /\ jar = [d \in {"tel", "post"} |-> FALSE]

\* the two callers of the upsert functions, and a caller that has not called
Callers == {"a", "b"}
NoUpsert ==
    [domain |-> "", arg |-> EmptyMap, pc |-> "off", clean |-> EmptyMap, exists |-> FALSE,
     token |-> 0, sent |-> << >>, result |-> ""]

Init ==
    /\ InitRequest
    /\ llmText = << >>
    /\ extractor = ""
    /\ parsed = NoParsed
    /\ extracted = NoExtracted
    /\ upserts = [c \in Callers |-> NoUpsert]

\* the request ends with an exception that reaches the endpoint's except clauses
Raise(exc) ==
    /\ response' = HttpBoundary(exc)
    /\ raised' = exc
    /\ pc' = "done"

\* the request ends with a handler's result
Return(type) ==
    /\ response' = Success(type)
    /\ raised' = NoExc
    /\ pc' = "done"

UseExtractors_ExplicitFirst(b) == b.user_query # "" /\ b.intent = ""

\* "if payload.user_query:" of route_dynamic; process_user_query always
\* extracts, and its bodies carry a text
UseExtractors(b) == b.user_query # ""

\* a new request arrives (the previous one, if any, has been answered)
StartRequest ==
    /\ pc \in {"idle", "done"}
    /\ UNCHANGED <<jar, llmText, extractor, parsed, extracted, upserts>>
    /\ issued < MaxTokens
    /\ \E r \in {"v1", "v3"} : \E b \in Payloads(r) :
        /\ route' = r
        /\ payload' = b
        /\ IF UseExtractors(b)
           THEN /\ pc' = "extract_tel"
                /\ chosen' = NoData
                /\ intent' = ""
                /\ entities' = EmptyMap
           ELSE \* route_dynamic, explicit intent and entities
                /\ pc' = "route"
                /\ chosen' = [intent |-> IF b.intent # "" THEN b.intent ELSE "GeneralChat",
                              entities |-> b.entities]
                /\ intent' = chosen'.intent
                /\ entities' = chosen'.entities
    /\ telData' = NoData
    /\ postData' = NoData
    /\ handler' = ""
    /\ clean' = EmptyMap
    /\ plant' = 0
    /\ exists' = FALSE
    /\ token' = 0
    /\ postStatus' = 0
    /\ calls' = << >>
    /\ response' = NoResponse
    /\ raised' = NoExc
    /\ UNCHANGED <<store, issued>>

AfterTelExtract_ShortCircuit(tel) ==
    IF tel.intent # "GeneralChat" THEN "route" ELSE "extract_post"

\* the statement after tel_data = extract_telephone_details(...): the postal
\* extractor, whatever the telephone result
AfterTelExtract(tel) == "extract_post"

\* extract_telephone_details(user_query)
ExtractTel ==
    /\ pc = "extract_tel"
    /\ UNCHANGED <<jar, llmText, extractor, parsed, extracted, upserts>>
    /\ \E out \in LLMOutputs :
        /\ calls' = Append(calls, Call("llm", "extract_tel", 0, 200, 0, out.kind))
        /\ IF extract_error(out) # NoExc
           THEN /\ Raise(extract_error(out))
                /\ UNCHANGED telData
           ELSE /\ telData' = extract_details("tel", out)
                /\ pc' = AfterTelExtract(telData')
                /\ UNCHANGED <<response, raised>>
    /\ UNCHANGED <<route, payload, postData, chosen, intent, entities, handler,
                   clean, plant, exists, token, postStatus, store, issued>>

\* extract_postal_details(user_query), then the reconciliation of the two results
ExtractPost ==
    /\ pc = "extract_post"
    /\ UNCHANGED <<jar, llmText, extractor, parsed, extracted, upserts>>
    /\ \E out \in LLMOutputs :
        /\ calls' = Append(calls, Call("llm", "extract_post", 0, 200, 0, out.kind))
        /\ IF extract_error(out) # NoExc
           THEN /\ Raise(extract_error(out))
                /\ UNCHANGED <<postData, chosen, intent, entities>>
           ELSE /\ postData' = extract_details("post", out)
                /\ chosen' = Reconcile(telData, postData')
                /\ intent' = chosen'.intent
                /\ entities' = chosen'.entities
                /\ pc' = "route"
                /\ UNCHANGED <<response, raised>>
    /\ UNCHANGED <<route, payload, telData, handler,
                   clean, plant, exists, token, postStatus, store, issued>>

(* ------------------------------ validation and dispatch ---------------- *)
\* main.py ensure_required_fields / route_dynamic "missing": HTTPException(400)
ensure_required_fields(e, required) ==
    IF \E f \in required : Get(e, f) = 0
    THEN [cls |-> "HTTPException", msg |-> MissingMsg, code |-> 400, carries |-> {}]
    ELSE NoExc

\* core/handlers/base.py ensure_required: ValueError
ensure_required(e, required) ==
    IF \E f \in required : Get(e, f) = 0
    THEN [cls |-> "ValueError", msg |-> MissingMsg, code |-> 0, carries |-> {}]
    ELSE NoExc

\* head of create_update_*_address: PLANT must survive the cleaning
upsert_entry(e) ==
    IF Get(clean_entities(e), "PLANT") = 0
    THEN [cls |-> "ValueError", msg |-> "PLANT must be provided to identify the record", code |-> 0, carries |-> {}]
    ELSE NoExc

FirstExc(a, b) == IF a # NoExc THEN a ELSE b

\* the if/elif chain of process_user_query: branch taken for an intent
V1Branch(i) ==
    IF i \in TelephoneIntents THEN "sap_telephone"
    ELSE IF i \in PostalIntents THEN "sap_postal"
    ELSE "general_chat"

\* first outbound call of a handler
EntryPc(h, i) ==
    IF h = "general_chat" THEN "chat"
    ELSE IF h = "sap_telephone"
    THEN (IF i = "GetTelephoneAddress" THEN "tel_getall" ELSE "tel_exists")
    ELSE (IF i = "GetPostalAddress" THEN "post_getall" ELSE "post_token")

\* handle(intent, entities, context) of core/handlers/<h>.py up to its first
\* outbound call: the exception it raises there, if any
HandleExc(h, i, e) ==
    IF h = "general_chat" THEN NoExc
    ELSE IF i \in {"GetTelephoneAddress", "GetPostalAddress"} /\ HandlerModule(i) = h THEN NoExc
    ELSE IF i \in WriteIntents /\ HandlerModule(i) = h
    THEN FirstExc(ensure_required(e, {"PLANT"}), upsert_entry(e))
    ELSE [cls |-> "ValueError", msg |-> "Unsupported intent for handler", code |-> 0, carries |-> {}]

\* IntentRegistry.dispatch: unregistered intent
DispatchExc(i) ==
    IF i \notin Registered
    THEN [cls |-> "ValueError", msg |-> "No handler registered for intent", code |-> 0, carries |-> {}]
    ELSE NoExc

\* everything between the reconciliation and the first outbound call of the
\* selected handler
Route ==
    /\ pc = "route"
    /\ UNCHANGED <<jar, llmText, extractor, parsed, extracted, upserts>>
    /\ LET i2 == IF route = "v3" THEN FallbackIntent(intent) ELSE intent
           h == IF route = "v3" THEN HandlerModule(i2) ELSE V1Branch(i2)
           pre == IF route = "v3"
                  THEN FirstExc(ensure_required_fields(entities, Required(i2)), DispatchExc(i2))
                  ELSE IF i2 \in WriteIntents
                       THEN ensure_required_fields(entities, {"PLANT"})
                       ELSE NoExc
           inh == IF route = "v3"
                  THEN HandleExc(h, i2, entities)
                  ELSE IF i2 \in WriteIntents THEN upsert_entry(entities) ELSE NoExc
       IN /\ intent' = i2
          /\ IF pre # NoExc
             THEN /\ Raise(pre)
                  /\ UNCHANGED <<handler, clean, plant>>
             ELSE /\ handler' = h
                  /\ IF inh # NoExc
                     THEN /\ Raise(inh)
                          /\ UNCHANGED <<clean, plant>>
                     ELSE /\ pc' = EntryPc(h, i2)
                          /\ clean' = IF i2 \in WriteIntents THEN clean_entities(entities) ELSE clean
                          /\ plant' = IF i2 \in WriteIntents THEN Get(clean_entities(entities), "PLANT") ELSE plant
                          /\ UNCHANGED <<response, raised>>
    /\ telData' = NoData
    /\ postData' = NoData
    /\ UNCHANGED <<route, payload, chosen, entities, exists, token, postStatus,
                   calls, store, issued>>

\* llm.invoke(question) of the general-chat branch / handler
Chat ==
    /\ pc = "chat"
    /\ UNCHANGED <<jar, llmText, extractor, parsed, extracted, upserts>>
    /\ calls' = Append(calls, Call("llm", "chat", 0, 200, 0, "reply"))
    /\ Return("general")
    /\ UNCHANGED <<route, payload, store, issued>>
    /\ UNCHANGED reqLocals

(* ------------------------------ remote answers ------------------------- *)
\* The remote OData service keeps one record per PLANT in each entity set.
\* It answers a read of a key with 200 or 404 according to its records, it
\* rejects a write that carries no CSRF token, a create of an existing key and
\* an update of a missing key; any call may also fail (500) or time out (0).
\* A write that times out may or may not have been applied.
Answer(status, body, recs) == [status |-> status, body |-> body, recs |-> recs]

\* envelopes of a collection: {"d": {"results": L}} (OData v2), {"value": L}
Envelopes == {"d.results", "value"}

\* a 200 answer to a read of the collection is JSON in one of the envelopes or
\* has a content type that is not JSON
CollectionAnswers(recs) ==
    { Answer(200, b, recs) : b \in Envelopes \cup {"nonjson"} }
    \cup { Answer(st, "", recs) : st \in {500, 0} }

KeyAnswers(recs, p) ==
    (IF p \in recs
     THEN { Answer(200, b, recs) : b \in {"json", "nonjson"} }
     ELSE { Answer(404, "", recs) })
    \cup { Answer(st, "", recs) : st \in {500, 0} }

\* answers to a token fetch: csrf is the token of the X-CSRF-Token response
\* header, 0 when the header is missing
TokenAnswers(n) ==
    { [status |-> 200, csrf |-> n + 1], [status |-> 200, csrf |-> 0],
      [status |-> 500, csrf |-> 0], [status |-> 0, csrf |-> 0] }

WriteAnswers(op, recs, p, csrf) ==
    IF csrf = 0 THEN { Answer(403, "", recs) }
    ELSE IF op = "POST"
    THEN IF p \in recs
         THEN { Answer(st, "", recs) : st \in {400, 403, 409, 500, 0} }
         ELSE { Answer(st, b, recs \cup {p}) : st \in {200, 201}, b \in {"json", "empty", "nonjson"} }
              \cup { Answer(st, "", recs) : st \in {400, 403, 500, 0} }
              \cup { Answer(0, "", recs \cup {p}) }
    ELSE IF p \in recs
         THEN { Answer(st, "", recs) : st \in {200, 204, 400, 403, 500, 0} }
         ELSE { Answer(st, "", recs) : st \in {404, 400, 500, 0} }

\* requests.Session keeps the cookies a response sets and sends them with
\* every later request of the same session; the remote sets its session
\* cookies in the response that carries a token.
SessionCookies(held, a) == held \/ a.csrf # 0

\* exception of a call that got a non-success answer or none
RemoteExc(status) ==
    IF status = 0
    THEN [cls |-> "Timeout", msg |-> "Read timed out", code |-> 0, carries |-> {}]
    ELSE [cls |-> "RuntimeError", msg |-> "Failed: <remote response body>", code |-> 0,
          carries |-> {"body"}]

\* resp.json() on a body that is not JSON: JSONDecodeError, a ValueError
JsonExc == [cls |-> "ValueError", msg |-> "Expecting value: line 1 column 1 (char 0)", code |-> 0, carries |-> {}]

(* ------------------------------ fetchAll ------------------------------- *)
\* data.get("d", {}).get("results", []) or data.get("value", [])
unwrap_telephone(shape, L) ==
    LET results == IF shape = "d.results" THEN L ELSE {}
        value == IF shape = "value" THEN L ELSE {}
    IN IF results # {} THEN results ELSE value

\* data.get("d", {}).get("results", [])
unwrap_postal(shape, L) == IF shape = "d.results" THEN L ELSE {}

unwrap(d, shape, L) ==
    IF d = "tel" THEN unwrap_telephone(shape, L) ELSE unwrap_postal(shape, L)

\* the request ends with {"status": "success", "type": "sap", "data": L}
ReturnData(L) ==
    /\ response' = [Success("sap") EXCEPT !.data = L]
    /\ raised' = NoExc
    /\ pc' = "done"

\* get_telephone_address() / get_postal_address()
GetAll(d) ==
    /\ pc = (IF d = "tel" THEN "tel_getall" ELSE "post_getall")
    /\ UNCHANGED <<jar, llmText, extractor, parsed, extracted, upserts>>
    /\ \E a \in CollectionAnswers(store[d]) :
        /\ calls' = Append(calls, Call(d, "GET_SET", 0, a.status, 0, a.body))
        /\ IF a.status = 200 /\ a.body \in Envelopes
           THEN ReturnData(unwrap(d, a.body, a.recs))
           ELSE Raise(RemoteExc(a.status))
    /\ UNCHANGED <<route, payload, store, issued>>
    /\ UNCHANGED reqLocals

(* ------------------------------ telephone upsert ----------------------- *)
WriteMethod_AlwaysCreate(ex) == "POST"

WriteMethod_Inverted(ex) == IF ex THEN "POST" ELSE "PATCH"

\* write request chosen by the existence check
WriteMethod(ex) == IF ex THEN "PATCH" ELSE "POST"

\* get_telephone_address_by_plant(plant)
TelExists ==
    /\ pc = "tel_exists"
    /\ UNCHANGED <<jar, llmText, extractor, parsed, extracted, upserts>>
    /\ \E a \in KeyAnswers(store["tel"], plant) :
        /\ calls' = Append(calls, Call("tel", "GET_KEY", plant, a.status, 0, a.body))
        /\ IF a.status = 200
           THEN IF a.body = "json"
                THEN /\ exists' = TRUE
                     /\ pc' = "tel_token"
                     /\ UNCHANGED <<response, raised>>
                ELSE /\ Raise(JsonExc)
                     /\ UNCHANGED exists
           ELSE IF a.status = 404
           THEN /\ exists' = FALSE
                /\ pc' = "tel_token"
                /\ UNCHANGED <<response, raised>>
           ELSE /\ Raise(RemoteExc(a.status))
                /\ UNCHANGED exists
    /\ UNCHANGED <<route, payload, telData, postData, chosen, intent, entities, handler,
                   clean, plant, token, postStatus, store, issued>>

\* fetch_csrf_token(fetch_path=ENTITY_SET) of sap_service
TelToken ==
    /\ pc = "tel_token"
    /\ UNCHANGED <<pureVars, upserts>>
    /\ \E a \in TokenAnswers(issued) :
        /\ calls' = Append(calls, Call("tel", "GET_TOKEN", 0, a.status, a.csrf, ""))
        /\ issued' = IF a.csrf # 0 THEN a.csrf ELSE issued
        /\ jar' = [jar EXCEPT !["tel"] = SessionCookies(jar["tel"], a)]
        /\ IF a.status # 200
           THEN /\ Raise(RemoteExc(a.status))
                /\ UNCHANGED token
           ELSE IF a.csrf = 0
           THEN /\ Raise([cls |-> "RuntimeError", msg |-> "CSRF token not returned by server", code |-> 0, carries |-> {}])
                /\ UNCHANGED token
           ELSE /\ token' = a.csrf
                /\ pc' = "tel_write"
                /\ UNCHANGED <<response, raised>>
    /\ UNCHANGED <<route, payload, telData, postData, chosen, intent, entities, handler,
                   clean, plant, exists, postStatus, store>>

\* the PATCH or POST of create_update_telephone_address
TelWrite ==
    /\ pc = "tel_write"
    /\ UNCHANGED <<jar, llmText, extractor, parsed, extracted, upserts>>
    /\ LET op == WriteMethod(exists)
           hdr == write_headers(token)
       IN \E a \in WriteAnswers(op, store["tel"], plant, hdr.csrf) :
            /\ calls' = Append(calls, Call("tel", op, plant, a.status, hdr.csrf, a.body))
            /\ store' = [store EXCEPT !["tel"] = a.recs]
            /\ IF (op = "PATCH" /\ a.status \in {204, 200}) \/ (op = "POST" /\ a.status \in {201, 200})
               THEN Return("sap")
               ELSE Raise(RemoteExc(a.status))
    /\ UNCHANGED <<route, payload, issued>>
    /\ UNCHANGED reqLocals

(* ------------------------------ postal upsert -------------------------- *)
\* fetch_csrf_token() of sap_postal_service: the token may be None (0)
PostToken ==
    /\ pc = "post_token"
    /\ UNCHANGED <<pureVars, upserts>>
    /\ \E a \in TokenAnswers(issued) :
        /\ calls' = Append(calls, Call("post", "GET_TOKEN", 0, a.status, a.csrf, ""))
        /\ issued' = IF a.csrf # 0 THEN a.csrf ELSE issued
        /\ jar' = [jar EXCEPT !["post"] = SessionCookies(jar["post"], a)]
        /\ IF a.status # 200
           THEN /\ Raise(RemoteExc(a.status))
                /\ UNCHANGED token
           ELSE /\ token' = a.csrf
                /\ pc' = "post_post"
                /\ UNCHANGED <<response, raised>>
    /\ UNCHANGED <<route, payload, telData, postData, chosen, intent, entities, handler,
                   clean, plant, exists, postStatus, store>>

AfterCreate_Retry(status) ==
    IF status \in CreateOk THEN "return"
    ELSE IF status \in FallbackStatuses THEN "post_put"
    ELSE "post_post"

\* what create_update_postal_address does after the answer to its POST
AfterCreate(status) ==
    IF status \in CreateOk THEN "return"
    ELSE IF status \in FallbackStatuses THEN "post_put"
    ELSE "raise"

AfterUpdate_Retry(status) ==
    IF status \in UpdateOk THEN "return"
    ELSE IF status = 0 THEN "post_put"
    ELSE "raise"

AfterUpdate_AlwaysOk(status) == "return"

\* what create_update_postal_address does after the answer to its PUT
AfterUpdate(status) == IF status \in UpdateOk THEN "return" ELSE "raise"

\* "Try POST (create)"
PostPost ==
    /\ pc = "post_post"
    /\ UNCHANGED <<jar, llmText, extractor, parsed, extracted, upserts>>
    /\ LET hdr == write_headers(token)
       IN \E a \in WriteAnswers("POST", store["post"], plant, hdr.csrf) :
            /\ calls' = Append(calls, Call("post", "POST", plant, a.status, hdr.csrf, a.body))
            /\ store' = [store EXCEPT !["post"] = a.recs]
            /\ postStatus' = a.status
            /\ IF AfterCreate(a.status) = "return"
               THEN \* return resp.json() if resp.text else {...}
                    IF a.body = "nonjson" THEN Raise(JsonExc) ELSE Return("sap")
               ELSE IF AfterCreate(a.status) = "raise"
               THEN Raise(RemoteExc(a.status))
               ELSE /\ pc' = AfterCreate(a.status)
                    /\ UNCHANGED <<response, raised>>
    /\ UNCHANGED <<route, payload, telData, postData, chosen, intent, entities, handler,
                   clean, plant, exists, token, issued>>

\* "If record already exists, try update": PUT keyed by PLANT
PostPut ==
    /\ pc = "post_put"
    /\ UNCHANGED <<jar, llmText, extractor, parsed, extracted, upserts>>
    /\ LET hdr == write_headers(token)
       IN \E a \in WriteAnswers("PUT", store["post"], plant, hdr.csrf) :
            /\ calls' = Append(calls, Call("post", "PUT", plant, a.status, hdr.csrf, a.body))
            /\ store' = [store EXCEPT !["post"] = a.recs]
            /\ IF AfterUpdate(a.status) = "return"
               THEN Return("sap")
               ELSE IF AfterUpdate(a.status) = "raise"
               THEN Raise(RemoteExc(a.status))
               ELSE /\ pc' = AfterUpdate(a.status)
                    /\ UNCHANGED <<response, raised>>
    /\ UNCHANGED <<route, payload, issued>>
    /\ UNCHANGED reqLocals

(* ------------------------------ specification -------------------------- *)
Next ==
    \/ StartRequest
    \/ ExtractTel
    \/ ExtractPost
    \/ Route
    \/ Chat
    \/ GetAll("tel")
    \/ GetAll("post")
    \/ TelExists
    \/ TelToken
    \/ TelWrite
    \/ PostToken
    \/ PostPost
    \/ PostPut

Spec == Init /\ [][Next]_vars

(* ------------------------------ model response text -------------------- *)
\* The text a language model returns, as a sequence of pieces:
\*   F  a run of three backticks
\*   W  white space (blanks, a newline)
\*   T  text without braces (a language tag such as json, a sentence)
\*   B  text with an opening and a closing brace that is not JSON
\*   J  the text of a JSON object, o its content
\*   N  the text of a JSON value that is not an object and has no braces
MaxPieces == 5

Piece(k) == [k |-> k, o |-> NoData]
JPiece(o) == [k |-> "J", o |-> o]

\* an object without an "intent" member reads as intent ""
JsonObjects == [intent : Intents \cup {"Bogus", ""}, entities : EntityMaps]
SampleObjects ==
    { [intent |-> "CreateTelephoneAddress", entities |-> [f \in {"PLANT"} |-> 1]],
      [intent |-> "Bogus", entities |-> EmptyMap] }
TextPieces ==
    { Piece(k) : k \in {"F", "W", "T", "B"} } \cup { JPiece(o) : o \in SampleObjects }
Responses ==
    { <<JPiece(o)>> : o \in JsonObjects } \cup { <<Piece("N")>> }
    \cup UNION { [1..n -> TextPieces] : n \in 0..MaxPieces }

\* len(): characters of a piece, of a text
Width(piece) ==
    CASE piece.k = "F" -> 3
      [] piece.k = "W" -> 1
      [] piece.k = "T" -> 4
      [] piece.k = "B" -> 60
      [] piece.k = "J" -> 40
      [] OTHER -> 2
RECURSIVE Length(_)
Length(text) == IF text = << >> THEN 0 ELSE Width(Head(text)) + Length(Tail(text))

\* str.strip()
RECURSIVE lstrip(_)
lstrip(text) ==
    IF text # << >> /\ Head(text).k = "W" THEN lstrip(Tail(text)) ELSE text
RECURSIVE rstrip(_)
rstrip(text) ==
    IF text # << >> /\ text[Len(text)].k = "W"
    THEN rstrip(SubSeq(text, 1, Len(text) - 1))
    ELSE text
strip(text) == rstrip(lstrip(text))

\* "```" in response
HasFence(text) == \E i \in DOMAIN text : text[i].k = "F"
\* "{" in p and "}" in p
HasBraces(text) == \E i \in DOMAIN text : text[i].k \in {"B", "J"}

\* response.split("```")
RECURSIVE split(_)
split(text) ==
    IF ~HasFence(text) THEN <<text>>
    ELSE LET i == CHOOSE k \in DOMAIN text :
                    text[k].k = "F" /\ \A m \in 1..(k - 1) : text[m].k # "F"
         IN <<SubSeq(text, 1, i - 1)>> \o split(SubSeq(text, i + 1, Len(text)))

\* max(parts, key=len): the first of the longest parts
Longest(parts) ==
    parts[CHOOSE i \in DOMAIN parts :
            /\ \A j \in DOMAIN parts : Length(parts[j]) <= Length(parts[i])
            /\ \A j \in 1..(i - 1) : Length(parts[j]) < Length(parts[i])]

\* "Clean any stray code fences if present"
clean_fences(text) ==
    IF HasFence(text)
    THEN LET parts == SelectSeq(split(text), HasBraces)
         IN IF parts # << >> THEN strip(Longest(parts)) ELSE text
    ELSE text

\* json.loads(response): white space around the value is accepted, anything
\* else around it is not
json_loads(text) ==
    LET t == strip(text)
    IN IF Len(t) = 1 /\ t[1].k = "J"
       THEN [kind |-> "object", intent |-> t[1].o.intent, entities |-> t[1].o.entities]
       ELSE IF Len(t) = 1 /\ t[1].k = "N"
       THEN [kind |-> "nonobject", intent |-> "", entities |-> EmptyMap]
       ELSE [kind |-> "badjson", intent |-> "", entities |-> EmptyMap]

\* extract_telephone_details / extract_postal_details from the model's answer on
extract(domain, text) ==
    LET out == json_loads(clean_fences(strip(text)))
    IN [exc |-> extract_error(out),
        value |-> IF extract_error(out) = NoExc THEN extract_details(domain, out) ELSE NoData]

(* ------------------------------ the extractors alone ------------------- *)
InitExtract ==
    /\ InitRequest
    /\ llmText \in Responses
    /\ extractor \in {"tel", "post"}
    /\ parsed = NoParsed
    /\ extracted = NoExtracted
    /\ upserts = [c \in Callers |-> NoUpsert]

\* response = chain.invoke(...).strip() up to the return of the extractor
Extract ==
    /\ extractor # ""
    /\ parsed = NoParsed
    /\ parsed' = json_loads(clean_fences(strip(llmText)))
    /\ extracted' = extract(extractor, llmText)
    /\ UNCHANGED <<llmText, extractor, upserts>>
    /\ UNCHANGED requestVars

NextExtract == Extract

SpecExtract == InitExtract /\ [][NextExtract]_vars

(* ------------------------------ properties ----------------------------- *)
Last(sq) == sq[Len(sq)]
SapCalls == { k \in DOMAIN calls : calls[k].svc # "llm" }
WriteCalls(sq) == { k \in DOMAIN sq : sq[k].op \in Writes }

\* C1: for every create or update intent whose entity map has no (non-empty)
\* PLANT, no call to the remote SAP service is made at any point of the
\* request, and the request ends in a 400 error whose message names PLANT.
C1_MissingPlantIsValidationError ==
    (chosen.intent \in WriteIntents /\ Get(chosen.entities, "PLANT") = 0)
        => /\ SapCalls = {}
           /\ pc = "done" => (response.code = 400 /\ response.detail = MissingMsg)

\* C2: reconciliation.  After both extractors returned, the chosen intent and
\* entities are the telephone result when its intent is not GeneralChat (also
\* when the postal intent is structured), else the postal result when its
\* intent is not GeneralChat, else GeneralChat with an empty entity map; these
\* are what is dispatched, and in the last case the response has type general.
C2_Reconciliation ==
    /\ (pc = "route" /\ payload.user_query # "") =>
          /\ telData.intent # "GeneralChat" => chosen = telData
          /\ (telData.intent = "GeneralChat" /\ postData.intent # "GeneralChat")
                => chosen = postData
          /\ (telData.intent = "GeneralChat" /\ postData.intent = "GeneralChat")
                => chosen = [intent |-> "GeneralChat", entities |-> EmptyMap]
          /\ intent = chosen.intent
          /\ entities = chosen.entities
    /\ (pc = "done" /\ payload.user_query # "" /\ chosen.intent = "GeneralChat") =>
          /\ chosen.entities = EmptyMap
          /\ response.status = "success"
          /\ response.type = "general"

\* C2 witness: both extractors returned a structured intent with different
\* entities, and the telephone result was chosen.
C2_Witness ==
    /\ pc = "route"
    /\ telData.intent \in TelephoneIntents
    /\ postData.intent \in PostalIntents
    /\ telData.entities # postData.entities
    /\ chosen = telData

\* C3: an unknown intent is never an error.  A request whose intent has no
\* registered handler (no branch of its own in process_user_query) is handed
\* to the GeneralChat handler and answered with a success of type general.
C3_UnknownIntentIsGeneralChat ==
    (pc = "done" /\ chosen.intent # ""
        /\ (IF route = "v3" THEN chosen.intent \notin Registered
                            ELSE chosen.intent \notin Intents))
    => /\ handler = "general_chat"
       /\ response = Success("general")
       /\ Last(calls).op = "chat"

\* C3 witness: an intent name unknown to the configuration was answered by
\* general chat on the dynamic route.
C3_Witness ==
    /\ pc = "done"
    /\ route = "v3"
    /\ chosen.intent = "Bogus"
    /\ handler = "general_chat"
    /\ response.type = "general"

\* C4: check-first upsert idempotence.  The telephone upsert sends exactly one
\* write; it is a create (POST) only when the remote store has no record for
\* the PLANT and an update (PATCH) when it has one, so after a call created
\* PLANT p a later call for p updates and never creates again; a successful
\* call leaves the record for p in the store.
C4_Step ==
    (pc = "tel_write" /\ pc' = "done") =>
        LET w == Last(calls')
        IN /\ w.svc = "tel"
           /\ w.plant = plant
           /\ w.op = (IF plant \in store["tel"] THEN "PATCH" ELSE "POST")
           /\ Cardinality(WriteCalls(calls')) = 1
           /\ response'.status = "success" => plant \in store'["tel"]
C4_CheckFirstIdempotent == [][C4_Step]_vars

\* C4 witness: a second call for a PLANT that an earlier call created (the
\* store starts empty) was answered as an accepted update.
C4_Witness ==
    /\ pc = "done"
    /\ response.status = "success"
    /\ \E k \in DOMAIN calls :
          /\ calls[k].svc = "tel" /\ calls[k].op = "PATCH"
          /\ calls[k].status \in {200, 204}
          /\ calls[k].plant \in store["tel"]
    /\ \A k \in DOMAIN calls : calls[k].op # "POST"

\* C5: postal upsert fallback rule.  The create (POST) is the first write; the
\* update (PUT keyed by the same PLANT) is sent if and only if the POST was
\* answered 400, 403 or 409; a POST answered 200/201 returns success without
\* a PUT; a POST answered anything else is a hard failure without a PUT.
C5_PostalFallbackRule ==
    /\ \A k \in DOMAIN calls :
          (calls[k].svc = "post" /\ calls[k].op = "PUT") =>
              /\ k > 1
              /\ calls[k-1].svc = "post" /\ calls[k-1].op = "POST"
              /\ calls[k-1].status \in {400, 403, 409}
              /\ calls[k-1].plant = calls[k].plant
    /\ \A k \in DOMAIN calls :
          (calls[k].svc = "post" /\ calls[k].op = "POST") =>
              /\ \A j \in 1..(k-1) : calls[j].op \notin Writes
              /\ pc = "done" =>
                    /\ calls[k].status \in {400, 403, 409} =>
                          (k < Len(calls) /\ calls[k+1].op = "PUT")
                    /\ calls[k].status \in {200, 201} =>
                          (k = Len(calls) /\ response.status = "success")
                    /\ calls[k].status \notin {200, 201, 400, 403, 409} =>
                          (k = Len(calls) /\ response.status = "error")

\* C6: every write (POST, PUT, PATCH) is preceded in the same upsert by a
\* token fetch that returned 200 and carries exactly the token of that fetch;
\* after a token fetch that did not return 200 the upsert has failed and sent
\* no write.
C6_TokenThreadedIntoWrite ==
    /\ \A k \in WriteCalls(calls) :
          \E j \in 1..(k-1) :
              /\ calls[j].op = "GET_TOKEN" /\ calls[j].svc = calls[k].svc
              /\ calls[j].status = 200
              /\ calls[j].csrf = calls[k].csrf
    /\ \A j \in DOMAIN calls :
          (calls[j].op = "GET_TOKEN" /\ calls[j].status # 200) =>
              /\ pc = "done"
              /\ response.status = "error"
              /\ WriteCalls(calls) = {}

\* C6 witness: a write accepted by the remote carried the token fetched in the
\* same call.
C6_Witness ==
    /\ pc = "done"
    /\ response.status = "success"
    /\ \E k \in WriteCalls(calls) : calls[k].csrf # 0 /\ calls[k].status \in {200, 201, 204}

\* C7: no token is cached or reused across requests.  Every upsert that sends
\* a write has performed its own token fetch, and a token carried by a write
\* is the one issued to this call (the latest the remote issued), never a
\* token issued to an earlier call.
C7_NoTokenReuse ==
    \A k \in WriteCalls(calls) :
        /\ Cardinality({ j \in 1..(k-1) : calls[j].op = "GET_TOKEN" }) = 1
        /\ calls[k].csrf # 0 => calls[k].csrf = issued

\* C7 witness: a later upsert, after tokens were issued to earlier calls, sent
\* its write with its own fresh token.
C7_Witness ==
    /\ issued >= 2
    /\ \E k \in WriteCalls(calls) : calls[k].csrf = issued

\* C8: error translation.  A missing-required-field failure is a 400; every
\* other failure is answered with a generic message only, so no response body
\* contains the message text of an internal exception (raw model output,
\* remote response body).
C8_NoInternalDetailInResponse ==
    (pc = "done" /\ response.status = "error") =>
        \/ response.code = 400 /\ response.detail = MissingMsg
        \/ response.detail = "Internal Server Error"

\* C9: every remote-service failure is a server error.  When the request
\* ended on a call to the remote service that was answered with a non-success
\* status or timed out, the response has status 500 (not 400, not a success).
C9_RemoteFailureIs500 ==
    (pc = "done" /\ calls # << >> /\ Last(calls).svc # "llm"
        /\ Last(calls).status \notin {200, 201, 204})
    => /\ response.code = 500
       /\ response.status = "error"

\* C9 witness: a write timed out and the request was answered 500.
C9_Witness ==
    /\ pc = "done"
    /\ calls # << >>
    /\ Last(calls).op \in Writes
    /\ Last(calls).status = 0
    /\ response.code = 500

\* C10: model output that is not JSON makes the extractor raise (it returns
\* no result), the request ends at once with a 400, and no handler, chat call
\* or remote call is made.
C10_ParseErrorIs400 ==
    \A k \in DOMAIN calls :
        calls[k].body = "badjson" =>
            /\ k = Len(calls)
            /\ pc = "done"
            /\ response.code = 400 /\ response.status = "error"
            /\ handler = ""
            /\ SapCalls = {}
            /\ chosen = NoData
            /\ IF calls[k].op = "extract_tel" THEN telData = NoData ELSE postData = NoData

\* C10 witness: the postal extractor failed to parse after the telephone
\* extractor had returned a create intent with a PLANT.
C10_Witness ==
    /\ pc = "done"
    /\ Len(calls) = 2
    /\ calls[2].body = "badjson"
    /\ telData.intent = "CreateTelephoneAddress"
    /\ Get(telData.entities, "PLANT") # 0
    /\ response.code = 400

(* ------------------------------ the upsert functions, called directly -- *)
\* create_update_telephone_address(arg) and create_update_postal_address(arg)
\* called by two callers at once, each step of a caller being one HTTP request
\* through the module's session.  The remote answers by its records: it issues
\* a token on every token fetch, accepts the create of an absent key and the
\* update of an existing one, rejects the create of an existing key with 400,
\* 403 or 409 and the update of an absent key with 404.
UpsertStarts ==
    { [NoUpsert EXCEPT !.domain = d, !.arg = e, !.pc = "entry"] :
        d \in {"tel", "post"}, e \in EntityMaps }

KeyStatus(recs, p) == IF p \in recs THEN 200 ELSE 404

RecordAnswers(op, recs, p, csrf) ==
    IF csrf = 0 THEN { Answer(403, "", recs) }
    ELSE IF op = "POST"
    THEN IF p \in recs
         THEN { Answer(st, "", recs) : st \in {400, 403, 409} }
         ELSE { Answer(201, "json", recs \cup {p}) }
    ELSE IF p \in recs
         THEN { Answer(204, "", recs) }
         ELSE { Answer(404, "", recs) }

\* one request of a caller as the remote sees it; payload: the JSON body
Sent(op, p, status, csrf, body) ==
    [op |-> op, plant |-> p, status |-> status, csrf |-> csrf, payload |-> body]

InitUpsert ==
    /\ InitRequest
    /\ llmText = << >>
    /\ extractor = ""
    /\ parsed = NoParsed
    /\ extracted = NoExtracted
    /\ upserts \in [Callers -> UpsertStarts]

upsertFrame == <<pc, route, payload, telData, postData, chosen, intent, entities, handler,
                 clean, plant, exists, token, postStatus, calls, response, raised,
                 llmText, extractor, parsed, extracted>>

\* head of the function: clean_entities, plant, the PLANT test
UpsertEntry(c) ==
    /\ upserts[c].pc = "entry"
    /\ upserts' = [upserts EXCEPT ![c] =
          [@ EXCEPT !.clean = clean_entities(upserts[c].arg),
                    !.result = upsert_entry(upserts[c].arg).cls,
                    !.pc = IF upsert_entry(upserts[c].arg) # NoExc THEN "done"
                           ELSE IF upserts[c].domain = "tel" THEN "exists" ELSE "token"]]
    /\ UNCHANGED <<store, issued, jar>>
    /\ UNCHANGED upsertFrame

\* exists = get_telephone_address_by_plant(plant) is not None
UpsertExists(c) ==
    /\ upserts[c].pc = "exists"
    /\ LET u == upserts[c]
           p == Get(u.clean, "PLANT")
           st == KeyStatus(store["tel"], p)
       IN upserts' = [upserts EXCEPT ![c] =
            [@ EXCEPT !.exists = (st = 200),
                      !.sent = Append(@, Sent("GET_KEY", p, st, 0, EmptyMap)),
                      !.pc = "token"]]
    /\ UNCHANGED <<store, issued, jar>>
    /\ UNCHANGED upsertFrame

\* fetch_csrf_token(...)
UpsertToken(c) ==
    /\ upserts[c].pc = "token"
    /\ LET u == upserts[c]
           a == [status |-> 200, csrf |-> issued + 1]
       IN /\ upserts' = [upserts EXCEPT ![c] =
                [@ EXCEPT !.token = a.csrf,
                          !.sent = Append(@, Sent("GET_TOKEN", 0, 200, a.csrf, EmptyMap)),
                          !.pc = IF upserts[c].domain = "tel" THEN "write" ELSE "post"]]
          /\ issued' = a.csrf
          /\ jar' = [jar EXCEPT ![u.domain] = SessionCookies(jar[u.domain], a)]
    /\ UNCHANGED store
    /\ UNCHANGED upsertFrame

\* the PATCH or POST of create_update_telephone_address
UpsertWrite(c) ==
    /\ upserts[c].pc = "write"
    /\ LET u == upserts[c]
           p == Get(u.clean, "PLANT")
           op == WriteMethod(u.exists)
           hdr == write_headers(u.token)
       IN \E a \in RecordAnswers(op, store["tel"], p, hdr.csrf) :
            /\ upserts' = [upserts EXCEPT ![c] =
                  [@ EXCEPT !.sent = Append(@, Sent(op, p, a.status, hdr.csrf, u.clean)),
                            !.result = IF (op = "PATCH" /\ a.status \in {204, 200})
                                          \/ (op = "POST" /\ a.status \in {201, 200})
                                       THEN "success" ELSE RemoteExc(a.status).cls,
                            !.pc = "done"]]
            /\ store' = [store EXCEPT !["tel"] = a.recs]
    /\ UNCHANGED <<issued, jar>>
    /\ UNCHANGED upsertFrame

\* "Try POST (create)" of create_update_postal_address
UpsertPost(c) ==
    /\ upserts[c].pc = "post"
    /\ LET u == upserts[c]
           p == Get(u.clean, "PLANT")
           hdr == write_headers(u.token)
       IN \E a \in RecordAnswers("POST", store["post"], p, hdr.csrf) :
            /\ upserts' = [upserts EXCEPT ![c] =
                  [@ EXCEPT !.sent = Append(@, Sent("POST", p, a.status, hdr.csrf, u.clean)),
                            !.result = IF AfterCreate(a.status) = "return" THEN "success"
                                       ELSE IF AfterCreate(a.status) = "raise"
                                       THEN RemoteExc(a.status).cls ELSE "",
                            !.pc = IF AfterCreate(a.status) \in {"return", "raise"}
                                   THEN "done" ELSE "put"]]
            /\ store' = [store EXCEPT !["post"] = a.recs]
    /\ UNCHANGED <<issued, jar>>
    /\ UNCHANGED upsertFrame

\* "If record already exists, try update" of create_update_postal_address
UpsertPut(c) ==
    /\ upserts[c].pc = "put"
    /\ LET u == upserts[c]
           p == Get(u.clean, "PLANT")
           hdr == write_headers(u.token)
       IN \E a \in RecordAnswers("PUT", store["post"], p, hdr.csrf) :
            /\ upserts' = [upserts EXCEPT ![c] =
                  [@ EXCEPT !.sent = Append(@, Sent("PUT", p, a.status, hdr.csrf, u.clean)),
                            !.result = IF AfterUpdate(a.status) = "return" THEN "success"
                                       ELSE RemoteExc(a.status).cls,
                            !.pc = "done"]]
            /\ store' = [store EXCEPT !["post"] = a.recs]
    /\ UNCHANGED <<issued, jar>>
    /\ UNCHANGED upsertFrame

NextUpsert ==
    \/ \E c \in Callers : UpsertEntry(c)
    \/ \E c \in Callers : UpsertExists(c)
    \/ \E c \in Callers : UpsertToken(c)
    \/ \E c \in Callers : UpsertWrite(c)
    \/ \E c \in Callers : UpsertPost(c)
    \/ \E c \in Callers : UpsertPut(c)

SpecUpsert == InitUpsert /\ [][NextUpsert]_vars

(* ------------------------------ extractor properties ------------------ *)
\* text is the object o inside one pair of fences: an optional language tag
\* and white space before it, white space after it, any text around the fences
Fenced(text, o) ==
    \E i, j \in DOMAIN text :
        /\ i < j
        /\ { k \in DOMAIN text : text[k].k = "F" } = {i, j}
        /\ \A k \in DOMAIN text : (k < i \/ k > j) => text[k].k \in {"T", "W", "B"}
        /\ LET core == strip(SubSeq(text, i + 1, j - 1))
           IN \/ core = <<JPiece(o)>>
              \/ /\ Len(core) >= 2
                 /\ core[1].k = "T"
                 /\ strip(Tail(core)) = <<JPiece(o)>>

\* C11: when the model's answer is a valid JSON object wrapped in a pair of
\* triple-backtick fences (with or without a language tag, with or without
\* text around the fences), the extractor returns what it returns for the
\* same JSON object without fences.
C11_FencedEqualsBare ==
    (extractor # "" /\ parsed # NoParsed) =>
        \A i \in DOMAIN llmText :
            (llmText[i].k = "J" /\ Fenced(llmText, llmText[i].o))
                => extracted = extract(extractor, <<llmText[i]>>)

\* C12: the intent an extractor returns is one of the four intents of its
\* domain; when the model's intent is outside that set or missing, the
\* returned intent is GeneralChat and the entities are the model's entities.
C12_IntentNormalised ==
    (extractor # "" /\ parsed.kind = "object") =>
        /\ extracted.exc = NoExc
        /\ extracted.value.intent \in KnownIntents(extractor)
        /\ parsed.intent \notin KnownIntents(extractor) =>
              /\ extracted.value.intent = "GeneralChat"
              /\ extracted.value.entities = parsed.entities

C12_Witness ==
    /\ extractor = "tel"
    /\ parsed.kind = "object"
    /\ parsed.intent = "CreatePostalAddress"
    /\ parsed.entities = [f \in {"PLANT"} |-> 1]
    /\ extracted.value = [intent |-> "GeneralChat", entities |-> [f \in {"PLANT"} |-> 1]]

(* ------------------------------ fetchAll properties ------------------- *)
\* C13: in both domains a read of the collection that is answered 200 with
\* JSON in the envelope {d: {results: L}} or {value: L} returns L; one that is
\* answered with another status (or not at all) or with a non-JSON content
\* type raises and returns no list.
C13_FetchAllUnwraps ==
    (pc = "done" /\ calls # << >> /\ Last(calls).op = "GET_SET") =>
        IF Last(calls).status = 200 /\ Last(calls).body \in Envelopes
        THEN /\ raised = NoExc
             /\ response.status = "success"
             /\ response.data = store[Last(calls).svc]
        ELSE /\ raised # NoExc
             /\ response.status = "error"
             /\ response.data = {}

(* ------------------------------ request properties -------------------- *)
\* C14: a request whose body carries neither a non-empty user_query nor an
\* intent runs no extractor, no handler, no language-model call and no remote
\* call, and is answered with a client error (4xx).
C14_EmptyRequestRejected ==
    (pc # "idle" /\ check_one_of(payload) # NoExc) =>
        /\ calls = << >>
        /\ handler = ""
        /\ pc = "done" => response.code \in 400..499

(* ------------------------------ outbound-call properties -------------- *)
LLMCalls == { k \in DOMAIN calls : calls[k].svc = "llm" }
CallsOf(ops) == { k \in DOMAIN calls : calls[k].op \in ops }
\* a write that the remote did not accept
FailedWrite(c) ==
    /\ c.op \in Writes
    /\ c.status \notin (IF c.op = "POST" THEN CreateOk
                        ELSE IF c.op = "PUT" THEN UpdateOk ELSE {204, 200})

\* C15 as stated: one request makes at most two language-model invocations
\* and at most two HTTP calls to the remote SAP service.
C15_AtMostTwoCalls ==
    /\ Cardinality(LLMCalls) <= 2
    /\ Cardinality(SapCalls) <= 2

\* C15, amended: one request makes at most three language-model invocations
\* (the two extractors and the general reply) and at most three HTTP calls to
\* the remote SAP service (an upsert: existence check or create, token fetch,
\* write); a request with three language-model invocations makes no remote
\* call, and a read of a collection makes one.
C15_AtMostThreeCalls ==
    /\ Cardinality(LLMCalls) <= 3
    /\ Cardinality(SapCalls) <= 3
    /\ Cardinality(LLMCalls) = 3 => SapCalls = {}
    /\ CallsOf({"GET_SET"}) # {} => Cardinality(SapCalls) = 1

C15_Witness ==
    /\ pc = "done"
    /\ Cardinality(LLMCalls) = 2
    /\ Cardinality(SapCalls) = 3
    /\ Last(calls).op = "PUT"

\* C16: an upsert sends at most one POST and at most one PUT or PATCH; a
\* write that failed is the last call of the request, except a POST answered
\* 400, 403 or 409 by the postal service, which is followed by exactly the
\* PUT; no extractor and no token fetch runs twice in a request.
C16_NoRetry ==
    /\ Cardinality(CallsOf({"POST"})) <= 1
    /\ Cardinality(CallsOf({"PUT", "PATCH"})) <= 1
    /\ Cardinality(CallsOf({"GET_TOKEN"})) <= 1
    /\ Cardinality(CallsOf({"extract_tel"})) <= 1
    /\ Cardinality(CallsOf({"extract_post"})) <= 1
    /\ \A k \in DOMAIN calls :
          (FailedWrite(calls[k]) /\ k < Len(calls)) =>
              /\ calls[k].svc = "post"
              /\ calls[k].op = "POST"
              /\ calls[k].status \in FallbackStatuses
              /\ k + 1 = Len(calls)
              /\ calls[k + 1].op = "PUT"

C16_Witness ==
    /\ pc = "done"
    /\ Len(calls) >= 3
    /\ calls[Len(calls) - 1].op = "POST" /\ calls[Len(calls) - 1].status = 409
    /\ Last(calls).op = "PUT" /\ Last(calls).status = 500
    /\ response.code = 500

(* ------------------------------ shared state --------------------------- *)
\* C17: no request writes state that another request reads: the HTTP sessions
\* of the service modules are, whenever a request is handled, what they were
\* at startup, and every outbound call of a request is the call the request
\* makes when it runs alone (it carries no cookie, or one the remote set in
\* answer to an earlier call of the same request).
C17_NoSharedMutableState ==
    /\ jar = [d \in {"tel", "post"} |-> FALSE]
    /\ \A k \in SapCalls :
          calls[k].cookie =>
              \E j \in 1..(k - 1) :
                  /\ calls[j].svc = calls[k].svc
                  /\ calls[j].op = "GET_TOKEN"
                  /\ calls[j].csrf # 0

(* ------------------------------ response properties -------------------- *)
\* utils/response.py failure(message, code): the members of the error envelope
ErrorEnvelope == {"status", "message", "code"}

\* C18: every response body is {status: "success", type: "sap", data} (no
\* reply), {status: "success", type: "general", reply} (no data) or the error
\* envelope {status: "error", message, code}, and every request that ends
\* with a failure is answered with the error envelope.
C18_ResponseEnvelope ==
    pc = "done" =>
        /\ \/ /\ response.status = "success" /\ response.type = "sap"
              /\ response.keys = {"status", "type", "data"}
           \/ /\ response.status = "success" /\ response.type = "general"
              /\ response.keys = {"status", "type", "reply"}
           \/ /\ response.status = "error"
              /\ response.keys = ErrorEnvelope
        /\ raised # NoExc => response.keys = ErrorEnvelope

\* C19: when an upsert ends with a write the remote answered with a failure
\* (a create that does not trigger the fallback, an update), the exception it
\* raises carries the remote status code and the remote response body.
C19_TerminalFailureCarriesStatusAndBody ==
    (pc = "done" /\ calls # << >> /\ FailedWrite(Last(calls)) /\ Last(calls).status # 0) =>
        /\ raised.cls = "RuntimeError"
        /\ raised.carries = {"status", "body"}

(* ------------------------------ get properties -------------------------- *)
GetIntents == {"GetTelephoneAddress", "GetPostalAddress"}
DomainOf(i) == IF i \in TelephoneIntents THEN "tel" ELSE "post"

\* C20: a request for GetTelephoneAddress or GetPostalAddress, whatever its
\* entity map, makes exactly one call to the remote service, a GET of the
\* collection of its domain (no token fetch, no write), and when that GET is
\* answered with the records in an envelope the response is
\* {status: "success", type: "sap"} with exactly those records as data.
C20_GetIsReadOnly ==
    (pc = "done" /\ chosen.intent \in GetIntents) =>
        /\ Cardinality(SapCalls) = 1
        /\ \A k \in SapCalls :
              /\ calls[k].op = "GET_SET"
              /\ calls[k].svc = DomainOf(chosen.intent)
              /\ (calls[k].status = 200 /\ calls[k].body \in Envelopes) =>
                    /\ response.status = "success"
                    /\ response.type = "sap"
                    /\ response.data = store[calls[k].svc]

(* ------------------------------ upsert properties ----------------------- *)
\* C21: when a request for a create or update intent ends with a success
\* result, the last remote call is a write for the request's PLANT that the
\* remote accepted, and the remote store of the domain holds a record with
\* that PLANT; success is never reported after calls in which no create and
\* no update was accepted.
C21_SuccessMeansRecordHeld ==
    (pc = "done" /\ response.status = "success" /\ intent \in WriteIntents) =>
        /\ calls # << >>
        /\ Last(calls).op \in Writes
        /\ ~FailedWrite(Last(calls))
        /\ Last(calls).plant = plant
        /\ Last(calls).svc = DomainOf(intent)
        /\ plant \in store[DomainOf(intent)]

C21_Witness ==
    /\ pc = "done"
    /\ response.status = "success"
    /\ intent \in WriteIntents
    /\ Last(calls).op = "PUT"
    /\ plant \in store["post"]

C23_After(c) ==
    LET u == upserts[c]
        kept == { f \in DOMAIN u.arg : u.arg[f] # 0 }
    IN u.pc # "entry" =>
        /\ DOMAIN u.clean = kept
        /\ \A f \in kept : u.clean[f] = u.arg[f]
        /\ "PLANT" \notin kept =>
              /\ u.pc = "done"
              /\ u.result = "ValueError"
              /\ u.sent = << >>
        /\ \A k \in DOMAIN u.sent :
              u.sent[k].op \in Writes =>
                  /\ "PLANT" \in DOMAIN u.sent[k].payload
                  /\ \A f \in DOMAIN u.sent[k].payload : u.sent[k].payload[f] # 0

C23_Step ==
    \A c \in Callers :
        /\ upserts'[c].arg = upserts[c].arg
        /\ C23_After(c)'

\* C23: called with any field map, the upsert (telephone and postal) drops
\* the fields whose value is empty, fails with a validation error before any
\* HTTP request when PLANT is not among the remaining fields, sends only
\* write payloads that contain PLANT and no empty value, and leaves the
\* caller's field map as it was.
C23_ServiceInputHandling == [][C23_Step]_vars

C23_Witness ==
    \E c \in Callers :
        /\ upserts[c].pc = "done"
        /\ upserts[c].arg = [f \in {"PLANT", "OTHER"} |-> IF f = "PLANT" THEN 1 ELSE 0]
        /\ upserts[c].result = "success"
        /\ \E k \in DOMAIN upserts[c].sent :
              /\ upserts[c].sent[k].op \in Writes
              /\ upserts[c].sent[k].payload = [f \in {"PLANT"} |-> 1]

(* ------------------------------ token properties ------------------------ *)
\* C24: in both upsert variants a token fetch that is answered 200 without
\* an X-CSRF-Token header is the last remote call of the request, which ends
\* with a failure: no POST, PUT or PATCH follows it.
C24_NoWriteWithoutToken ==
    \A k \in CallsOf({"GET_TOKEN"}) :
        (calls[k].status = 200 /\ calls[k].csrf = 0) =>
            /\ k = Len(calls)
            /\ pc = "done"
            /\ response.status = "error"

(* ------------------------------ concurrent upserts ----------------------- *)
\* both callers have returned from the upsert of domain d for the same PLANT,
\* which no record had when they called
SamePlantDone(d) ==
    /\ \A c \in Callers : upserts[c].pc = "done" /\ upserts[c].domain = d
    /\ Get(upserts["a"].clean, "PLANT") # 0
    /\ Get(upserts["a"].clean, "PLANT") = Get(upserts["b"].clean, "PLANT")
SentBy(c, ops) == { k \in DOMAIN upserts[c].sent : upserts[c].sent[k].op \in ops }

\* C25: in every interleaving of two telephone upserts for the same PLANT
\* that is absent at the start, at most one of them sends a POST and the
\* other sends a PATCH, both return success and the store holds the PLANT.
C25_CheckFirstUnderConcurrency ==
    SamePlantDone("tel") =>
        /\ Cardinality({ c \in Callers : SentBy(c, {"POST"}) # {} }) <= 1
        /\ \E c \in Callers : SentBy(c, {"PATCH"}) # {}
        /\ \A c \in Callers : upserts[c].result = "success"
        /\ Get(upserts["a"].clean, "PLANT") \in store["tel"]

Extractions == {"extract_tel", "extract_post"}

\* C27: in a request with free text the first outbound call is the telephone
\* extractor and the second the postal extractor (also when the telephone
\* result is a structured intent); no handler runs and no other call is made
\* before both have returned; when an extractor fails, the request ends there
\* with an error, without handler, general-chat call or remote call.
C27_ExtractorOrder ==
    (payload.user_query # "" /\ pc # "idle") =>
        /\ \A k \in DOMAIN calls :
              /\ k = 1 => calls[k].op = "extract_tel"
              /\ k = 2 => calls[k].op = "extract_post"
              /\ k >= 3 => calls[k].op \notin Extractions
              /\ (calls[k].op \in Extractions /\ calls[k].body # "object") =>
                    /\ k = Len(calls)
                    /\ pc = "done"
                    /\ handler = ""
                    /\ response.status = "error"
        /\ pc \notin {"extract_tel", "extract_post", "done"} => Len(calls) >= 2
        /\ handler # "" => Len(calls) >= 2
        /\ (pc = "done" /\ Len(calls) < 2) => calls[1].body # "object"

C27_Witness ==
    /\ pc = "done"
    /\ telData.intent = "CreateTelephoneAddress"
    /\ Len(calls) = 2
    /\ calls[2].op = "extract_post"
    /\ calls[2].body = "badjson"
    /\ handler = ""
    /\ response.code = 400

\* C28: when an extractor's model output is valid JSON that is not an
\* object, the extractor fails with the parse error (ValueError), no handler
\* is invoked and the request ends with the 400 extraction-error response,
\* never with a 500.
C28_NonObjectIsParseError ==
    \A k \in DOMAIN calls :
        (calls[k].op \in Extractions /\ calls[k].body = "nonobject") =>
            /\ handler = ""
            /\ pc = "done"
            /\ raised.cls = "ValueError"
            /\ response.code = 400

(* ------------------------------ input precedence ------------------------- *)
\* C29: on /v3/route a body with a non-empty user_query is classified by the
\* extractors and the intent and entities that are dispatched are the
\* reconciled extractor results, whatever explicit intent and entities the
\* body carries; a body without user_query is dispatched with its explicit
\* intent (GeneralChat when absent) and entities, and no extractor runs.
C29_InputPrecedence ==
    (route = "v3" /\ pc # "idle") =>
        IF payload.user_query # ""
        THEN /\ pc # "extract_tel" => (calls # << >> /\ calls[1].op = "extract_tel")
             /\ pc = "route" =>
                   /\ Len(calls) = 2
                   /\ calls[2].op = "extract_post"
                   /\ chosen = Reconcile(telData, postData)
                   /\ intent = chosen.intent
                   /\ entities = chosen.entities
        ELSE /\ CallsOf(Extractions) = {}
             /\ chosen = [intent |-> IF payload.intent # "" THEN payload.intent
                                     ELSE "GeneralChat",
                          entities |-> payload.entities]
             /\ pc = "route" => (intent = chosen.intent /\ entities = chosen.entities)

C29_Witness ==
    /\ route = "v3"
    /\ pc = "done"
    /\ payload.user_query # ""
    /\ payload.intent = "CreateTelephoneAddress"
    /\ chosen.intent = "GetTelephoneAddress"
    /\ handler = "sap_telephone"
    /\ Last(calls).op = "GET_SET"

====
